---- MODULE Spec2Model ----
(***************************************************************************)
(* GoodBotBot (index.py): the Lambda handler in its two modes, polling     *)
(* (choose_candidate_tweet, run_state_machine) and direct reply            *)
(* (reply_to_tweet), together with load_configuration and the helpers      *)
(* they call.                                                              *)
(*                                                                         *)
(* Python values are modelled as follows.  A str is a sequence of symbols  *)
(* (a symbol stands for one or more characters), so that `in`, `+`, `%`    *)
(* and int() are computed on the text.  A dict is a function whose DOMAIN  *)
(* is the set of keys present.  None is the absence of a key, the id 0     *)
(* (NoId) or the record NoTweet.                                           *)
(***************************************************************************)
EXTENDS Integers, Sequences, FiniteSets, TLC

VARIABLES
    environ,      \* os.environ, a dict from variable names to str
    timeline,     \* the target account's timeline on the platform, newest first
    statuses,     \* the platform's posts by id, as api.get_status serves them
    mytweets,     \* the controlled account's timeline, newest first
    clock,        \* datetime.now(timezone.utc), in seconds
    executions,   \* Step Functions: the executions started, each [name, input]
    requests,     \* every start_execution call issued, each [name, input]
    inv,          \* the handler invocations: position and local variables
    last          \* what the invocation that returned last did

vars == <<environ, timeline, statuses, mytweets, clock, executions, requests, inv, last>>

(***************************************************************************)
(* Bounds of the model.                                                    *)
(***************************************************************************)
MaxBody == 5          \* longest post body drawn for choose_reply, in symbols
MaxTimeline == 2      \* longest target timeline drawn for candidate selection
MaxTime == 62         \* largest clock value and creation time drawn, in seconds
MaxMyTweets == 23     \* cap on the controlled account's timeline
MaxEnvLen == 2        \* longest BOT_MAXAGE text drawn
MaxPosts == 2         \* posts the target account makes while invocations poll

\* count=20 in both api.user_timeline calls
TimelineCount == 20

DEFAULT_MAXAGE == 6 * 60

NoId == 0

(***************************************************************************)
(* str and dict operations.                                                *)
(***************************************************************************)
Min(a, b) == IF a < b THEN a ELSE b

\* s in t, for str
IsSubstring(s, t) ==
    \E i \in 0..(Len(t) - Len(s)) : SubSeq(t, i + 1, i + Len(s)) = s

\* all str over an alphabet of at most n symbols in length
StrUpTo(alphabet, n) == UNION {[1..k -> alphabet] : k \in 0..n}

EmptyDict == <<>>

\* d.get(k, default)
Get(d, k, default) == IF k \in DOMAIN d THEN d[k] ELSE default

\* d[k] = v
Put(d, k, v) == [x \in DOMAIN d \cup {k} |-> IF x = k THEN v ELSE d[x]]

Digits == {"0", "1", "2", "3", "4", "5", "6", "7", "8", "9"}

DigitVal(c) ==
    CASE c = "0" -> 0 [] c = "1" -> 1 [] c = "2" -> 2 [] c = "3" -> 3
      [] c = "4" -> 4 [] c = "5" -> 5 [] c = "6" -> 6 [] c = "7" -> 7
      [] c = "8" -> 8 [] c = "9" -> 9

DigitChar(n) ==
    CASE n = 0 -> "0" [] n = 1 -> "1" [] n = 2 -> "2" [] n = 3 -> "3"
      [] n = 4 -> "4" [] n = 5 -> "5" [] n = 6 -> "6" [] n = 7 -> "7"
      [] n = 8 -> "8" [] n = 9 -> "9"

\* whether int(s) returns: an optional sign, then one digit or more.  (Python
\* also accepts surrounding blanks and underscores between digits, which the
\* alphabets here do not hold.)
IsIntLiteral(s) ==
    LET body == IF Len(s) > 0 /\ s[1] \in {"-", "+"} THEN Tail(s) ELSE s
    IN  Len(body) > 0 /\ \A i \in 1..Len(body) : body[i] \in Digits

RECURSIVE DigitsValue(_)
DigitsValue(s) ==
    IF s = <<>> THEN 0
    ELSE 10 * DigitsValue(SubSeq(s, 1, Len(s) - 1)) + DigitVal(s[Len(s)])

\* int(s), where IsIntLiteral(s)
ParseInt(s) ==
    IF s[1] = "-" THEN 0 - DigitsValue(Tail(s))
    ELSE IF s[1] = "+" THEN DigitsValue(Tail(s))
    ELSE DigitsValue(s)

\* the decimal text of a positive id: the platform's id_str
RECURSIVE IdStr(_)
IdStr(n) ==
    IF n < 10 THEN <<DigitChar(n)>>
    ELSE Append(IdStr(n \div 10), DigitChar(n % 10))

(***************************************************************************)
(* MESSAGES: the fixed set of replies.  Three of the forty are kept, two   *)
(* of them sharing their first symbol: 'Good bot.', 'Good job.', 'Thanks!' *)
(***************************************************************************)
MESSAGES == { <<"Good", "bot.">>, <<"Good", "job.">>, <<"Thanks!">> }

MessageSymbols == {"Good", "bot.", "job.", "Thanks!"}

\* 'Alt/title text:'
AltText == <<"Alt/title", "text:">>

(***************************************************************************)
(* set_defaults and load_configuration.                                    *)
(***************************************************************************)
config_options == <<
    [key |-> "app_key",      environ |-> "BOT_APP_KEY",      is_int |-> FALSE],
    [key |-> "app_secret",   environ |-> "BOT_APP_SECRET",   is_int |-> FALSE],
    [key |-> "access_token", environ |-> "BOT_ACCESS_TOKEN", is_int |-> FALSE],
    [key |-> "token_secret", environ |-> "BOT_TOKEN_SECRET", is_int |-> FALSE],
    [key |-> "target",       environ |-> "BOT_TARGET",       is_int |-> FALSE],
    [key |-> "source",       environ |-> "BOT_SOURCE",       is_int |-> FALSE],
    [key |-> "maxage",       environ |-> "BOT_MAXAGE",       is_int |-> TRUE] >>

\* `not config.get('maxage', None)` is true of an absent key and of 0
set_defaults(config) ==
    IF "maxage" \notin DOMAIN config \/ config["maxage"] = 0
    THEN Put(config, "maxage", DEFAULT_MAXAGE)
    ELSE config

\* The first loop of load_configuration from option i on: the config it
\* leaves, or ValueError when int(value) raises.
RECURSIVE ReadOptions(_, _, _)
ReadOptions(config, env, i) ==
    IF i > Len(config_options) THEN [raised |-> "None", config |-> config]
    ELSE LET option == config_options[i] IN
         IF option.environ \notin DOMAIN env
         THEN ReadOptions(config, env, i + 1)
         ELSE IF option.is_int
         THEN IF IsIntLiteral(env[option.environ])
              THEN ReadOptions(Put(config, option.key, ParseInt(env[option.environ])),
                               env, i + 1)
              ELSE [raised |-> "ValueError", config |-> config]
         ELSE ReadOptions(Put(config, option.key, env[option.environ]), env, i + 1)

\* The second loop: the environment names of the options absent from config.
RECURSIVE MissingFrom(_, _)
MissingFrom(config, i) ==
    IF i > Len(config_options) THEN <<>>
    ELSE IF config_options[i].key \notin DOMAIN config
         THEN <<config_options[i].environ>> \o MissingFrom(config, i + 1)
         ELSE MissingFrom(config, i + 1)

\* load_configuration(config, environ): what it raises ("None" when it
\* returns), the config it returns and the names its exception lists.
load_configuration(config, env) ==
    LET read == ReadOptions(config, env, 1) IN
    IF read.raised # "None"
    THEN [raised |-> read.raised, config |-> EmptyDict, missing |-> <<>>]
    ELSE LET defaulted == set_defaults(read.config)
             missing   == MissingFrom(defaulted, 1)
         IN  IF missing # <<>>
             THEN [raised |-> "ConfigurationException", config |-> EmptyDict,
                   missing |-> missing]
             ELSE [raised |-> "None", config |-> defaulted, missing |-> <<>>]

(***************************************************************************)
(* Posts, as Tweepy hands them over.  Status.parse sets one attribute per  *)
(* key of the platform's JSON; the platform marks a retweet with the key   *)
(* retweeted_status, which a post that is no retweet does not carry.       *)
(***************************************************************************)
NoTweet == [none |-> TRUE]

Tweet(id, screen_name, source, text, created_at) ==
    [id |-> id, id_str |-> IdStr(id), author |-> [screen_name |-> screen_name],
     source |-> source, text |-> text, created_at |-> created_at]

Retweet(id, screen_name, source, text, created_at) ==
    Tweet(id, screen_name, source, text, created_at) @@ ("retweeted_status" :> TRUE)

\* hasattr(obj, name)
HasAttr(obj, name) == name \in DOMAIN obj

\* a post of the controlled account; only this field of it is read
MyTweet(in_reply_to_status_id) == [in_reply_to_status_id |-> in_reply_to_status_id]

\* a mutant of user_timeline: one post fewer is fetched
user_timelineShort(tl) == SubSeq(tl, 1, Min(Len(tl), TimelineCount - 1))

\* api.user_timeline(count=20): the newest posts of a timeline
user_timeline(tl) == SubSeq(tl, 1, Min(Len(tl), TimelineCount))

\* api.get_status(id)
get_status(posts, id) == posts[id]

(***************************************************************************)
(* get_latest_candidate_tweet: the loop over tweets, from index i on.      *)
(***************************************************************************)
RECURSIVE ScanTweets(_, _, _)
ScanTweets(tweets, config, i) ==
    IF i > Len(tweets) THEN NoTweet
    ELSE LET tweet == tweets[i] IN
         IF tweet.author.screen_name # config["target"]
         THEN ScanTweets(tweets, config, i + 1)
         ELSE IF tweet.source # config["source"]
         THEN ScanTweets(tweets, config, i + 1)
         ELSE IF HasAttr(tweet, "retweet_status") /\ tweet["retweet_status"]
         THEN ScanTweets(tweets, config, i + 1)
         ELSE IF ~IsSubstring(AltText, tweet.text)
         THEN ScanTweets(tweets, config, i + 1)
         ELSE tweet

get_latest_candidate_tweet(tl, config) == ScanTweets(user_timeline(tl), config, 1)

(***************************************************************************)
(* choose_reply.  NoReply stands for None: `if not reply` is true of both. *)
(***************************************************************************)
NoReply == <<>>

\* a mutant of ScanMyTweets: the messages found in the text are not removed
RECURSIVE ScanMyTweetsNoFilter(_, _, _, _)
ScanMyTweetsNoFilter(mine, tweet, messages, i) ==
    IF i > Len(mine) THEN [replied |-> FALSE, messages |-> messages]
    ELSE IF mine[i].in_reply_to_status_id = tweet.id
         THEN [replied |-> TRUE, messages |-> messages]
         ELSE ScanMyTweetsNoFilter(mine, tweet, messages, i + 1)

\* The loop over mytweets from index i on: "replied" when it returns None,
\* else the messages left when it ends.
RECURSIVE ScanMyTweets(_, _, _, _)
ScanMyTweets(mine, tweet, messages, i) ==
    IF i > Len(mine) THEN [replied |-> FALSE, messages |-> messages]
    ELSE IF mine[i].in_reply_to_status_id = tweet.id
         THEN [replied |-> TRUE, messages |-> messages]
         ELSE ScanMyTweets(mine, tweet,
                           {x \in messages : ~IsSubstring(x, tweet.text)}, i + 1)

\* a mutant of choose_reply: an empty timeline is not refused
choose_replyOfAnyTimeline(mine, tweet) ==
    LET scan == ScanMyTweets(user_timeline(mine), tweet, MESSAGES, 1) IN
    IF scan.replied THEN {[raised |-> "None", reply |-> NoReply]}
    ELSE {[raised |-> "None", reply |-> m] : m \in scan.messages}

\* The outcomes of choose_reply(api, tweet), `mine` being the controlled
\* account's timeline: NoTimelineException, None, ValueError from
\* random.sample of no messages, or any one of the messages left.
\* (random.sample is handed a set, which Python before 3.11 accepts.)
choose_reply(mine, tweet) ==
    LET mytweets_ == user_timeline(mine) IN
    IF Len(mytweets_) < 1
    THEN {[raised |-> "NoTimelineException", reply |-> NoReply]}
    ELSE LET scan == ScanMyTweets(mytweets_, tweet, MESSAGES, 1) IN
         IF scan.replied THEN {[raised |-> "None", reply |-> NoReply]}
         ELSE IF scan.messages = {}
         THEN {[raised |-> "ValueError", reply |-> NoReply]}
         ELSE {[raised |-> "None", reply |-> m] : m \in scan.messages}

(***************************************************************************)
(* time_since_tweet and the comparison of choose_candidate_tweet.          *)
(***************************************************************************)
time_since_tweet(tweet, now) ==
    LET seconds == now - tweet.created_at
    IN  IF seconds < 0 THEN 0 ELSE seconds

\* a mutant of TooOld: the boundary is rejected too
TooOldInclusive(seconds_since, config) == seconds_since >= config["maxage"] * 60

\* seconds_since > maxage, maxage being config['maxage'] * 60
TooOld(seconds_since, config) == seconds_since > config["maxage"] * 60

(***************************************************************************)
(* run_state_machine: the execution name and the input it passes, and the  *)
(* service's enforced unicity of names.                                    *)
(***************************************************************************)
\* a mutant of ExecutionName: the id is left out of the name
ExecutionNameWithoutId(tweet_id) == <<"GoodBotBot-tweet-id-">>

ExecutionName(tweet_id) == <<"GoodBotBot-tweet-id-">> \o tweet_id

ExecutionRequest(tweet_id) ==
    [name |-> ExecutionName(tweet_id), input |-> ("tweet-id" :> tweet_id)]

NameTaken(execs, name) == \E i \in 1..Len(execs) : execs[i].name = name

(***************************************************************************)
(* An invocation of handler(event, context): its position and its locals.  *)
(* sent lists the api.update_status calls it made.                         *)
(***************************************************************************)
Idle ==
    [pc |-> "idle", event |-> EmptyDict, config |-> EmptyDict,
     candidate |-> NoTweet, tweet |-> NoTweet, reply |-> NoReply,
     retval |-> EmptyDict, raised |-> "None", missing |-> <<>>, sent |-> <<>>]

\* n invocations, none begun
Idles(n) == [p \in 1..n |-> Idle]

\* `tweet_id is None` in handler
IsPolling(p) == "tweet-id" \notin DOMAIN inv[p].event

\* handler, lines 462-467: load_configuration() and the reading of the event.
\* An uncaught exception ends the invocation.
LoadConfiguration(p, events) ==
    /\ inv[p].pc = "idle"
    /\ \E event \in events :
         LET loaded == load_configuration(EmptyDict, environ) IN
         inv' = [inv EXCEPT ![p] =
                   IF loaded.raised # "None"
                   THEN [Idle EXCEPT !.pc = "raised", !.event = event,
                                     !.raised = loaded.raised,
                                     !.missing = loaded.missing]
                   ELSE [Idle EXCEPT !.pc = "loaded", !.event = event,
                                     !.config = loaded.config]]
    /\ UNCHANGED <<environ, timeline, statuses, mytweets, clock, executions,
                   requests, last>>

\* choose_candidate_tweet up to its call of choose_reply: the timeline fetch,
\* the scan and the age comparison.
GetLatestCandidateTweet(p) ==
    /\ inv[p].pc = "loaded"
    /\ IsPolling(p)
    /\ LET candidate     == get_latest_candidate_tweet(timeline, inv[p].config)
           seconds_since == time_since_tweet(candidate, clock)
       IN  inv' = [inv EXCEPT ![p] =
                     IF candidate = NoTweet
                     THEN [@ EXCEPT !.pc = "polled", !.candidate = candidate,
                                    !.tweet = NoTweet]
                     ELSE IF TooOld(seconds_since, inv[p].config)
                     THEN [@ EXCEPT !.pc = "polled", !.candidate = candidate,
                                    !.tweet = NoTweet]
                     ELSE [@ EXCEPT !.pc = "choose_reply", !.candidate = candidate]]
    /\ UNCHANGED <<environ, timeline, statuses, mytweets, clock, executions,
                   requests, last>>

\* reply_to_tweet up to its call of choose_reply: api.get_status and retval.
GetStatus(p) ==
    /\ inv[p].pc = "loaded"
    /\ ~IsPolling(p)
    /\ LET tweet_id == inv[p].event["tweet-id"]
           dry_run  == Get(inv[p].event, "dry-run", FALSE)
       IN  inv' = [inv EXCEPT ![p] =
                     [@ EXCEPT !.pc = "choose_reply",
                               !.candidate = get_status(statuses, ParseInt(tweet_id)),
                               !.retval = ("tweet-id" :> tweet_id) @@ ("dry-run" :> dry_run)]]
    /\ UNCHANGED <<environ, timeline, statuses, mytweets, clock, executions,
                   requests, last>>

\* choose_reply, called by choose_candidate_tweet (which then returns the
\* candidate, or None when there is no reply) and by reply_to_tweet.
ChooseReply(p) ==
    /\ inv[p].pc = "choose_reply"
    /\ \E outcome \in choose_reply(mytweets, inv[p].candidate) :
         inv' = [inv EXCEPT ![p] =
                   IF outcome.raised # "None"
                   THEN [@ EXCEPT !.pc = "raised", !.raised = outcome.raised]
                   ELSE IF IsPolling(p)
                   THEN [@ EXCEPT !.pc = "polled", !.reply = outcome.reply,
                                  !.tweet = IF outcome.reply = NoReply
                                            THEN NoTweet ELSE inv[p].candidate]
                   ELSE [@ EXCEPT !.pc = "replying", !.reply = outcome.reply,
                                  !.tweet = inv[p].candidate]]
    /\ UNCHANGED <<environ, timeline, statuses, mytweets, clock, executions,
                   requests, last>>

\* handler, lines 474-477, and run_state_machine.  start_execution raises
\* ExecutionAlreadyExists for a name already used.
RunStateMachine(p) ==
    /\ inv[p].pc = "polled"
    /\ IF "state-machine-arn" \notin DOMAIN inv[p].event
       THEN /\ inv' = [inv EXCEPT ![p].pc = "returned"]
            /\ UNCHANGED <<executions, requests>>
       ELSE IF inv[p].tweet # NoTweet
       THEN LET request == ExecutionRequest(inv[p].tweet.id_str) IN
            /\ requests' = requests \cup {request}
            /\ IF NameTaken(executions, request.name)
               THEN /\ inv' = [inv EXCEPT ![p].pc = "raised",
                                          ![p].raised = "ExecutionAlreadyExists"]
                    /\ UNCHANGED executions
               ELSE /\ inv' = [inv EXCEPT ![p].pc = "returned"]
                    /\ executions' = Append(executions, request)
       ELSE /\ inv' = [inv EXCEPT ![p].pc = "returned"]
            /\ UNCHANGED <<executions, requests>>
    /\ UNCHANGED <<environ, timeline, statuses, mytweets, clock, last>>

\* '@%s %s' % (tweet.author.screen_name, reply)
StatusText(tweet, reply) == <<"@">> \o tweet.author.screen_name \o <<" ">> \o reply

\* a mutant of Sends: the dry-run flag is not looked at
SendsDespiteDryRun(reply, dry_run) == reply # NoReply

\* a mutant of Sends: the timeline is looked at again before sending
SendsUnlessReplied(reply, dry_run) ==
    /\ reply # NoReply
    /\ ~dry_run
    /\ \A k \in 1..Len(mytweets) : mytweets[k].in_reply_to_status_id = NoId

\* reply_to_tweet: whether it gets to api.update_status (`if not reply`
\* is false, then `if dry_run` is false)
Sends(reply, dry_run) ==
    IF reply = NoReply THEN FALSE
    ELSE IF dry_run THEN FALSE
    ELSE TRUE

\* a mutant of ReplyTweet: in_reply_to_status_id is not passed
ReplyTweetUnthreaded(tweet_id) == MyTweet(NoId)

\* the post api.update_status(..., in_reply_to_status_id = int(tweet_id)) makes
ReplyTweet(tweet_id) == MyTweet(ParseInt(tweet_id))

\* reply_to_tweet from `if not reply` on, with api.update_status, which puts
\* the reply on top of the controlled account's timeline.  reply-tweet is set
\* in the branch that sends.
UpdateStatus(p) ==
    /\ inv[p].pc = "replying"
    /\ LET tweet_id == inv[p].event["tweet-id"]
           dry_run  == inv[p].retval["dry-run"]
           reply    == inv[p].reply
       IN  IF Sends(reply, dry_run)
           THEN /\ Len(mytweets) < MaxMyTweets
                /\ mytweets' = <<ReplyTweet(tweet_id)>> \o mytweets
                /\ inv' = [inv EXCEPT ![p] =
                     [@ EXCEPT !.pc = "returned",
                               !.sent = Append(@, [status |-> StatusText(inv[p].tweet, reply),
                                                   in_reply_to_status_id |-> ParseInt(tweet_id)]),
                               !.retval = Put(@, "reply-tweet", reply)]]
           ELSE /\ inv' = [inv EXCEPT ![p].pc = "returned"]
                /\ UNCHANGED mytweets
    /\ UNCHANGED <<environ, timeline, statuses, clock, executions, requests, last>>

\* The invocation ends, by a return or by the exception it raised.
Return(p) ==
    /\ inv[p].pc \in {"returned", "raised"}
    /\ last' = [event |-> inv[p].event, raised |-> inv[p].raised,
                replied |-> inv[p].sent # <<>>]
    /\ inv' = [inv EXCEPT ![p] = Idle]
    /\ UNCHANGED <<environ, timeline, statuses, mytweets, clock, executions, requests>>

(***************************************************************************)
(* The environment: the configuration, the posts and the events drawn.     *)
(***************************************************************************)
TargetHandle == <<"target">>
OtherHandle == <<"other">>
BotSource == <<"bot">>
WebSource == <<"web">>
StateMachineArn == <<"arn">>

\* a complete environment; BOT_MAXAGE is left to its default
ValidEnviron ==
    [k \in {"BOT_APP_KEY", "BOT_APP_SECRET", "BOT_ACCESS_TOKEN", "BOT_TOKEN_SECRET",
            "BOT_TARGET", "BOT_SOURCE"} |->
        IF k = "BOT_TARGET" THEN TargetHandle
        ELSE IF k = "BOT_SOURCE" THEN BotSource ELSE <<"secret">>]

\* a post of the target account that passes every test of the scan
CandidatePost(id, created_at) == Tweet(id, TargetHandle, BotSource, AltText, created_at)

\* a first post of the controlled account that replies to nothing
FirstTweet == MyTweet(NoId)

NoLast == [event |-> EmptyDict, raised |-> "None", replied |-> FALSE]

\* the events of polling mode
PollingEvents == {EmptyDict, ("state-machine-arn" :> StateMachineArn)}

\* the events of direct mode for the posts ids: dry-run absent or true
DirectEvents(ids) ==
    {("tweet-id" :> IdStr(i)) : i \in ids}
      \cup {("tweet-id" :> IdStr(i)) @@ ("dry-run" :> TRUE) : i \in ids}

\* the target account posts: the post tops its timeline
NewPost ==
    /\ Len(timeline) < MaxPosts
    /\ LET post == CandidatePost(Len(timeline) + 1, clock) IN
       /\ timeline' = <<post>> \o timeline
       /\ statuses' = statuses @@ (post.id :> post)
    /\ UNCHANGED <<environ, mytweets, clock, executions, requests, inv, last>>

\* handler in polling mode
Polling(p, events) ==
    \/ LoadConfiguration(p, events)
    \/ GetLatestCandidateTweet(p)
    \/ ChooseReply(p)
    \/ RunStateMachine(p)
    \/ Return(p)

\* handler in direct mode
Direct(p, events) ==
    \/ LoadConfiguration(p, events)
    \/ GetStatus(p)
    \/ ChooseReply(p)
    \/ UpdateStatus(p)
    \/ Return(p)

(***************************************************************************)
(* Spec: two invocations at a time, of either mode, on one post.           *)
(***************************************************************************)
Init ==
    /\ environ = ValidEnviron
    /\ timeline \in {<<>>, <<CandidatePost(1, 0)>>}
    /\ statuses = (1 :> CandidatePost(1, 0))
    /\ mytweets \in {<<>>, <<FirstTweet>>}
    /\ clock = 0
    /\ executions = <<>>
    /\ requests = {}
    /\ inv = Idles(2)
    /\ last = NoLast

Next ==
    \E p \in 1..2 :
        \/ LoadConfiguration(p, PollingEvents \cup DirectEvents(DOMAIN statuses))
        \/ GetLatestCandidateTweet(p)
        \/ GetStatus(p)
        \/ ChooseReply(p)
        \/ RunStateMachine(p)
        \/ UpdateStatus(p)
        \/ Return(p)

Spec == Init /\ [][Next]_vars

(***************************************************************************)
(* SpecConfig: load_configuration on every environment drawn.              *)
(***************************************************************************)
StrNames == {config_options[i].environ : i \in {j \in 1..Len(config_options) :
                                                  ~config_options[j].is_int}}

\* the environments: each str option absent, empty or set; BOT_MAXAGE absent
\* or any text of signs, digits and letters
Environs ==
    LET strs == UNION {[S -> {<<>>, <<"v">>}] : S \in SUBSET StrNames}
    IN  strs \cup {e @@ ("BOT_MAXAGE" :> m) :
                     e \in strs, m \in StrUpTo({"0", "1", "-", "x"}, MaxEnvLen)}

InitConfig ==
    /\ environ \in Environs
    /\ timeline = <<>>
    /\ statuses = <<>>
    /\ mytweets = <<>>
    /\ clock = 0
    /\ executions = <<>>
    /\ requests = {}
    /\ inv = Idles(1)
    /\ last = NoLast

NextConfig == \E p \in 1..1 : LoadConfiguration(p, {EmptyDict}) \/ Return(p)

SpecConfig == InitConfig /\ [][NextConfig]_vars

(***************************************************************************)
(* SpecSelect: polling over every target timeline drawn.                   *)
(***************************************************************************)
\* the posts drawn: by the target or another account, from the expected
\* source or another, a retweet or not, of any short text
SelectPosts(id) ==
    LET texts == StrUpTo({"Alt/title", "text:"}, Len(AltText) + 1) IN
    {Tweet(id, a, s, t, 0) : a \in {TargetHandle, OtherHandle},
                             s \in {BotSource, WebSource}, t \in texts}
      \cup {Retweet(id, a, s, t, 0) : a \in {TargetHandle, OtherHandle},
                                      s \in {BotSource, WebSource}, t \in texts}

\* the timelines of n posts, the newest with the largest id
RECURSIVE SelectTimelines(_)
SelectTimelines(n) ==
    IF n = 0 THEN {<<>>}
    ELSE {<<post>> \o tl : post \in SelectPosts(n), tl \in SelectTimelines(n - 1)}

InitSelect ==
    /\ environ = ValidEnviron
    /\ timeline \in UNION {SelectTimelines(n) : n \in 0..MaxTimeline}
    /\ statuses = <<>>
    /\ mytweets = <<FirstTweet>>
    /\ clock = 0
    /\ executions = <<>>
    /\ requests = {}
    /\ inv = Idles(1)
    /\ last = NoLast

NextSelect == \E p \in 1..1 : Polling(p, {("state-machine-arn" :> StateMachineArn)})

SpecSelect == InitSelect /\ [][NextSelect]_vars

(***************************************************************************)
(* SpecAge: polling at every clock value and creation time drawn, with     *)
(* BOT_MAXAGE of one minute or left to its default.                        *)
(***************************************************************************)
InitAge ==
    /\ environ \in {ValidEnviron, ValidEnviron @@ ("BOT_MAXAGE" :> <<"1">>)}
    /\ \E created_at \in 0..MaxTime : timeline = <<CandidatePost(1, created_at)>>
    /\ statuses = <<>>
    /\ mytweets = <<FirstTweet>>
    /\ clock \in 0..MaxTime
    /\ executions = <<>>
    /\ requests = {}
    /\ inv = Idles(1)
    /\ last = NoLast

NextAge == \E p \in 1..1 : Polling(p, {("state-machine-arn" :> StateMachineArn)})

SpecAge == InitAge /\ [][NextAge]_vars

(***************************************************************************)
(* SpecReply: direct mode on a post of every body drawn.                   *)
(***************************************************************************)
InitReply ==
    /\ environ = ValidEnviron
    /\ timeline = <<>>
    /\ \E text \in StrUpTo(MessageSymbols, MaxBody) :
         statuses = (1 :> Tweet(1, TargetHandle, BotSource, text, 0))
    /\ mytweets \in {<<FirstTweet>>, <<MyTweet(1)>>, <<MyTweet(2), FirstTweet>>,
                     <<FirstTweet, MyTweet(1)>>}
    /\ clock = 0
    /\ executions = <<>>
    /\ requests = {}
    /\ inv = Idles(1)
    /\ last = NoLast

NextReply == \E p \in 1..1 : Direct(p, DirectEvents({1}))

SpecReply == InitReply /\ [][NextReply]_vars

(***************************************************************************)
(* SpecPoll: two invocations polling at a time while the target posts.     *)
(***************************************************************************)
InitPoll ==
    /\ environ = ValidEnviron
    /\ timeline = <<>>
    /\ statuses = <<>>
    /\ mytweets = <<FirstTweet>>
    /\ clock = 0
    /\ executions = <<>>
    /\ requests = {}
    /\ inv = Idles(2)
    /\ last = NoLast

NextPoll == NewPost \/ \E p \in 1..2 : Polling(p, PollingEvents)

SpecPoll == InitPoll /\ [][NextPoll]_vars

(***************************************************************************)
(* SpecSeq: direct mode, one invocation after the other.  The post 1 may   *)
(* be asked for at any time; of the others, the one asked for is the       *)
(* oldest not replied to yet.                                              *)
(***************************************************************************)
TrackedIds == {1}

NextFresh ==
    LET fresh == {i \in DOMAIN statuses \ TrackedIds :
                    \A k \in 1..Len(mytweets) : mytweets[k].in_reply_to_status_id # i}
    IN  {i \in fresh : \A j \in fresh : i <= j}

InitSeq ==
    /\ environ = ValidEnviron
    /\ timeline = <<>>
    /\ statuses = [i \in 1..MaxMyTweets |-> Tweet(i, TargetHandle, BotSource, AltText, 0)]
    /\ mytweets \in {<<>>, <<FirstTweet>>}
    /\ clock = 0
    /\ executions = <<>>
    /\ requests = {}
    /\ inv = Idles(1)
    /\ last = NoLast

NextSeq ==
    \E p \in 1..1 :
        \/ LoadConfiguration(p, DirectEvents(TrackedIds \cup NextFresh))
        \/ GetStatus(p)
        \/ ChooseReply(p)
        \/ UpdateStatus(p)
        \/ Return(p)

SpecSeq == InitSeq /\ [][NextSeq]_vars

(***************************************************************************)
(* The claims.                                                             *)
(***************************************************************************)
DryRunOf(p) == Get(inv[p].event, "dry-run", FALSE)

\* how many posts of the controlled account reply to the post id
RepliesTo(id) ==
    Cardinality({k \in 1..Len(mytweets) : mytweets[k].in_reply_to_status_id = id})

\* the invocation p is the second of two direct, non-dry-run invocations in
\* sequence for one post id, the first of which sent a reply
SecondOfTwo(p) ==
    /\ last.replied
    /\ ~IsPolling(p)
    /\ ~DryRunOf(p)
    /\ inv[p].event["tweet-id"] = last.event["tweet-id"]

\* C1 (SpecSeq): when direct mode without dry-run is invoked twice in sequence
\* for one post id and the first invocation sent a reply, the second gets None
\* from choose_reply, makes no update_status call and returns a record without
\* reply text.
C1_IdempotentDispatch ==
    \A p \in DOMAIN inv :
        SecondOfTwo(p) =>
            /\ inv[p].pc # "raised"
            /\ inv[p].reply = NoReply
            /\ inv[p].sent = <<>>
            /\ inv[p].pc = "returned" =>
                   inv[p].retval = ("tweet-id" :> inv[p].event["tweet-id"])
                                     @@ ("dry-run" :> FALSE)

C1_Witness ==
    \E p \in DOMAIN inv : SecondOfTwo(p) /\ inv[p].pc = "returned"

\* C2 as claimed (SpecSeq): a direct invocation with dry-run set never calls
\* update_status, and when the post has not been replied to the record it
\* returns holds the reply text chosen.
C2_DryRunReturnsReply ==
    \A p \in DOMAIN inv :
        (~IsPolling(p) /\ DryRunOf(p)) =>
            /\ inv[p].sent = <<>>
            /\ (inv[p].pc = "returned" /\ inv[p].reply # NoReply) =>
                   /\ "reply-tweet" \in DOMAIN inv[p].retval
                   /\ inv[p].retval["reply-tweet"] = inv[p].reply

\* C2 as amended (SpecSeq): a direct invocation with dry-run set never calls
\* update_status, and the record it returns holds the post id and the dry-run
\* flag only: the reply chosen is printed, not returned.
C2_DryRunSendsNothing ==
    \A p \in DOMAIN inv :
        (~IsPolling(p) /\ DryRunOf(p)) =>
            /\ inv[p].sent = <<>>
            /\ inv[p].pc = "returned" =>
                   inv[p].retval = ("tweet-id" :> inv[p].event["tweet-id"])
                                     @@ ("dry-run" :> TRUE)

C2_Witness ==
    \E p \in DOMAIN inv :
        /\ ~IsPolling(p) /\ DryRunOf(p)
        /\ inv[p].pc = "returned"
        /\ inv[p].reply \in MESSAGES

\* C3 (Spec): when the controlled account's timeline is empty (it then stays
\* empty), choose_reply raises NoTimelineException in every invocation that
\* calls it; no invocation sends a reply, returns a record or starts an
\* execution, and only a polling invocation without a candidate returns.
C3_EmptyTimelineFailsClosed ==
    mytweets = <<>> =>
        /\ executions = <<>>
        /\ requests = {}
        /\ \A p \in DOMAIN inv :
               /\ inv[p].sent = <<>>
               /\ inv[p].reply = NoReply
               /\ inv[p].tweet = NoTweet
               /\ inv[p].pc # "replying"
               /\ inv[p].pc = "raised" =>
                      inv[p].raised = "NoTimelineException" /\ inv[p].candidate # NoTweet
               /\ inv[p].pc \in {"polled", "returned"} =>
                      IsPolling(p) /\ inv[p].candidate = NoTweet

C3_Witness ==
    /\ mytweets = <<>>
    /\ \E p, q \in DOMAIN inv :
           /\ IsPolling(p) /\ inv[p].raised = "NoTimelineException"
           /\ ~IsPolling(q) /\ ~DryRunOf(q) /\ inv[q].raised = "NoTimelineException"

\* C4 (SpecPoll): every start_execution call polling issues for a post carries
\* the name "GoodBotBot-tweet-id-<id>" and the input {tweet-id: id}; two calls
\* carry one name exactly when they are for one post; and, names being taken
\* once, at most one execution is started for each post.
C4_PollingDedup ==
    /\ \A r \in requests :
           \E i \in DOMAIN statuses :
               /\ r.name = <<"GoodBotBot-tweet-id-">> \o IdStr(i)
               /\ r.input = ("tweet-id" :> IdStr(i))
    /\ \A r1, r2 \in requests : r1.name = r2.name <=> r1.input = r2.input
    /\ \A i \in 1..Len(executions) : executions[i] \in requests
    /\ \A i, j \in 1..Len(executions) :
           executions[i].input = executions[j].input => i = j

C4_Witness ==
    /\ Len(executions) = 2
    /\ \E p \in DOMAIN inv : inv[p].raised = "ExecutionAlreadyExists"

\* whether one of the newest posts of the controlled account replies to tweet
AlreadyReplied(tweet) ==
    \E k \in 1..Len(mytweets) :
        k <= TimelineCount /\ mytweets[k].in_reply_to_status_id = tweet.id

\* C5 as claimed (SpecReply): the controlled account's timeline not being
\* empty, choose_reply returns None if one of its posts replies to the target,
\* and otherwise a message of MESSAGES that is not in the target's text,
\* whatever that text.
C5_ReplyAlwaysChosen ==
    \A p \in DOMAIN inv :
        (inv[p].pc \in {"replying", "raised"} /\ mytweets # <<>>) =>
            /\ inv[p].pc = "replying"
            /\ IF AlreadyReplied(inv[p].candidate)
               THEN inv[p].reply = NoReply
               ELSE /\ inv[p].reply \in MESSAGES
                    /\ ~IsSubstring(inv[p].reply, inv[p].candidate.text)

\* C5 as amended (SpecReply): the controlled account's timeline not being
\* empty, choose_reply returns None if one of its posts replies to the target;
\* otherwise, if some message of MESSAGES is not in the target's text, it
\* returns such a message, and if every message is in that text it raises
\* ValueError and returns nothing.
C5_ReplyChosenOrRaises ==
    \A p \in DOMAIN inv :
        (inv[p].pc \in {"replying", "raised"} /\ mytweets # <<>>) =>
            IF AlreadyReplied(inv[p].candidate)
            THEN inv[p].pc = "replying" /\ inv[p].reply = NoReply
            ELSE IF \E m \in MESSAGES : ~IsSubstring(m, inv[p].candidate.text)
            THEN /\ inv[p].pc = "replying"
                 /\ inv[p].reply \in MESSAGES
                 /\ ~IsSubstring(inv[p].reply, inv[p].candidate.text)
            ELSE inv[p].raised = "ValueError" /\ inv[p].reply = NoReply

C5_Witness ==
    \E p \in DOMAIN inv :
        /\ inv[p].pc = "replying"
        /\ inv[p].reply \in MESSAGES
        /\ \E m \in MESSAGES : IsSubstring(m, inv[p].candidate.text)

\* the post is a reshare: the platform's mark of a retweet
IsReshare(tweet) == HasAttr(tweet, "retweeted_status")

Eligible(tweet) ==
    /\ tweet.author.screen_name = TargetHandle
    /\ tweet.source = BotSource
    /\ ~IsReshare(tweet)
    /\ IsSubstring(AltText, tweet.text)

\* C6 (SpecSelect): get_latest_candidate_tweet returns the first post of the
\* list, in its order, that is by the target, from the configured source, not
\* a reshare and holds 'Alt/title text:', and None exactly when there is none.
C6_CandidateSelection ==
    \A p \in DOMAIN inv :
        inv[p].pc \in {"choose_reply", "polled", "returned", "raised"} =>
            IF \E i \in 1..Len(timeline) : Eligible(timeline[i])
            THEN \E i \in 1..Len(timeline) :
                     /\ Eligible(timeline[i])
                     /\ \A j \in 1..(i - 1) : ~Eligible(timeline[j])
                     /\ inv[p].candidate = timeline[i]
            ELSE inv[p].candidate = NoTweet

\* the seconds from the creation of the candidate of p to now, 0 when negative
Elapsed(p) ==
    IF clock < inv[p].candidate.created_at THEN 0
    ELSE clock - inv[p].candidate.created_at

\* choose_candidate_tweet gave up the candidate of p (in SpecAge no post has
\* been replied to, so that only the age does that)
Rejected(p) == inv[p].pc # "choose_reply" /\ inv[p].tweet = NoTweet

\* C7 (SpecAge): choose_candidate_tweet rejects a candidate for its age if and
\* only if the seconds elapsed since its creation, 0 when negative, are more
\* than maxage * 60.
C7_AgeGate ==
    \A p \in DOMAIN inv :
        (inv[p].pc \in {"choose_reply", "polled", "returned", "raised"}
           /\ inv[p].candidate # NoTweet) =>
            (Rejected(p) <=> Elapsed(p) > inv[p].config["maxage"] * 60)

C7_Witness ==
    \E p \in DOMAIN inv :
        /\ inv[p].pc = "returned"
        /\ inv[p].candidate # NoTweet
        /\ clock - inv[p].candidate.created_at = inv[p].config["maxage"] * 60
        /\ ~Rejected(p)

\* the options without a default: every one but BOT_MAXAGE
RequiredNames ==
    {"BOT_APP_KEY", "BOT_APP_SECRET", "BOT_ACCESS_TOKEN", "BOT_TOKEN_SECRET",
     "BOT_TARGET", "BOT_SOURCE"}

\* C8 (SpecConfig): from an empty configuration, when a required variable is
\* absent load_configuration raises ConfigurationException, returns nothing
\* and names every absent one; when none is absent it returns the seven
\* settings.
C8_ConfigFailsClosed ==
    \A p \in DOMAIN inv :
        inv[p].pc \in {"loaded", "raised"} =>
            IF RequiredNames \ DOMAIN environ # {}
            THEN /\ inv[p].raised = "ConfigurationException"
                 /\ inv[p].config = EmptyDict
                 /\ {inv[p].missing[i] : i \in 1..Len(inv[p].missing)}
                      = RequiredNames \ DOMAIN environ
            ELSE /\ inv[p].pc = "loaded"
                 /\ DOMAIN inv[p].config =
                      {"app_key", "app_secret", "access_token", "token_secret",
                       "target", "source", "maxage"}

\* C9 as claimed (SpecSeq): after any sequence of direct, non-dry-run
\* invocations one after the other, the controlled account has sent at most
\* one reply to each post.
C9_AtMostOneReply == \A id \in DOMAIN statuses : RepliesTo(id) <= 1

\* C9 as amended (SpecSeq): two replies of the controlled account to one post
\* have at least 20 other posts of its own between them: a post is replied to
\* again only once its reply is no longer among the 20 newest.
C9_AtMostOneReplyAmongNewest ==
    \A k1, k2 \in 1..Len(mytweets) :
        (/\ k1 < k2
         /\ mytweets[k1].in_reply_to_status_id # NoId
         /\ mytweets[k1].in_reply_to_status_id = mytweets[k2].in_reply_to_status_id)
            => k2 - k1 > 20

C9_Witness == \E id \in DOMAIN statuses : RepliesTo(id) = 2

\* p has been handed a reply by choose_reply, not in dry-run, and has returned
PassedAndReturned(p) ==
    /\ ~IsPolling(p)
    /\ ~DryRunOf(p)
    /\ inv[p].pc = "returned"
    /\ inv[p].reply # NoReply

\* C10 (Spec): an invocation that passed the already-replied check sends its
\* reply without looking again: when two direct, non-dry-run invocations for
\* one post have both passed it and returned, each has made its update_status
\* call and the post has two replies.
C10_BothSubmit ==
    \A p, q \in DOMAIN inv :
        (/\ p # q
         /\ PassedAndReturned(p)
         /\ PassedAndReturned(q)
         /\ inv[p].event["tweet-id"] = inv[q].event["tweet-id"]) =>
            /\ Len(inv[p].sent) = 1
            /\ Len(inv[q].sent) = 1
            /\ RepliesTo(ParseInt(inv[p].event["tweet-id"])) >= 2

C10_Witness ==
    \E p, q \in DOMAIN inv :
        /\ p # q
        /\ PassedAndReturned(p)
        /\ PassedAndReturned(q)
        /\ inv[p].event["tweet-id"] = inv[q].event["tweet-id"]
        /\ RepliesTo(ParseInt(inv[p].event["tweet-id"])) = 2

====
